---- MODULE Spec2Model ----
(***************************************************************************)
(* Model of better_replicate_zfs_snapshots.py, run against a ZFS snapshot  *)
(* store kept per host.                                                    *)
(*   Spec      one call of replicate_snapshots (with its bootstrap         *)
(*             recursion) for a filesystem pair                            *)
(*   SpecTwice that call, and the program run again on the store it left   *)
(*   SpecTree  replicate_snapshots_recursively over a root and its         *)
(*             children, and the end of __main__                           *)
(*   SpecLock  instances of __main__ and the lock on the pid file          *)
(*                                                                         *)
(* Strings of the program are sequences of tokens: the filesystem          *)
(* <<"tank", "/", "kid">> is "tank/kid", the snapshot                      *)
(* <<"back", "@", "zfs-auto-snap", "9">> is "back@zfs-auto-snap9".         *)
(* A shell command is a pipeline: a sequence of stages, each with the      *)
(* ssh prefix maybe_ssh built, the zfs verb and its arguments.             *)
(***************************************************************************)
EXTENDS Integers, Sequences, FiniteSets, TLC

VARIABLES src_host, src_filesystem, dest_host, dest_filesystem,
          dry_run, delete_snapshots_not_in_src, verbose, quiet,
          store, store0, pc, exc, depth,
          src_snapshots, dest_snapshots, idx, log,
          \* the invocation: which run of the program this is, and how the
          \* run before it ended
          run, prev,
          \* replicate_snapshots_recursively and __main__
          phase, src_root, dest_root, src_subfilesystems, dest_subfilesystems,
          kid, warned, visited, reported, exit_status,
          \* the instances of the program on one machine and the holder of
          \* the advisory lock on the pid file
          inst, lock_holder

\* the state of the invocation
twice == <<run, prev>>

\* the state of the tree walk and of __main__
walk == <<phase, src_root, dest_root, src_subfilesystems, dest_subfilesystems,
          kid, warned, visited, reported, exit_status>>

\* the state of the instances and the lock
locks == <<inst, lock_holder>>

\* what a call of replicate_snapshots leaves alone
others == <<twice, walk, locks>>

vars == <<src_host, src_filesystem, dest_host, dest_filesystem,
          dry_run, delete_snapshots_not_in_src, verbose, quiet,
          store, store0, pc, exc, depth,
          src_snapshots, dest_snapshots, idx, log,
          run, prev,
          phase, src_root, dest_root, src_subfilesystems, dest_subfilesystems,
          kid, warned, visited, reported, exit_status,
          inst, lock_holder>>

args == <<src_host, src_filesystem, dest_host, dest_filesystem,
          dry_run, delete_snapshots_not_in_src, verbose, quiet>>

(* ---------------------------- bounds ----------------------------------- *)

\* longest source snapshot sequence in an initial store
MaxSrc == 3

\* longest destination snapshot sequence in an initial store
MaxDest == 2

\* nesting of replicate_snapshots calls the interpreter allows before it
\* raises RuntimeError (maximum recursion depth exceeded)
MaxDepth == 3

(* ---------------------------- the universe ----------------------------- *)

Hosts == {"localhost", "sydney"}

SrcRoot == <<"tank">>

DestRoot == <<"back">>

SrcKid == <<"tank", "/", "kid">>

SrcPup == <<"tank", "/", "pup">>

DestKid == <<"back", "/", "kid">>

DestPup == <<"back", "/", "pup">>

\* every filesystem name of the model, in the order zfs list prints them
FsOrder == <<DestRoot, DestKid, DestPup, SrcRoot, SrcKid, SrcPup>>

Labels == { <<"1">>, <<"2">>, <<"zfs-auto-snap", "3">>, <<"zfs-auto-snap", "9">> }

\* position of a label in lexical (string) order
LexRank(l) ==
    CASE l = <<"1">> -> 1
      [] l = <<"2">> -> 2
      [] l = <<"zfs-auto-snap", "3">> -> 3
      [] l = <<"zfs-auto-snap", "9">> -> 4
      [] OTHER -> 0

(* ---------------------------- strings ---------------------------------- *)

StartsWith(s, p) == Len(s) >= Len(p) /\ SubSeq(s, 1, Len(p)) = p

Count(s, t) == Cardinality({i \in 1..Len(s) : s[i] = t})

Range(s) == {s[i] : i \in 1..Len(s)}

Last(s) == s[Len(s)]

Reverse(s) == [i \in 1..Len(s) |-> s[Len(s) + 1 - i]]

\* fs + "@" + label
SnapName(fs, label) == fs \o <<"@">> \o label

\* the part of a snapshot name before its "@"
FsOf(snapshot_name) ==
    LET p == CHOOSE i \in 1..Len(snapshot_name) :
                 /\ snapshot_name[i] = "@"
                 /\ \A j \in 1..(i - 1) : snapshot_name[j] # "@"
    IN SubSeq(snapshot_name, 1, p - 1)

\* snapshot_name.split("@")[1], under the assertion of a single "@"
strip_filesystem_name(snapshot_name) ==
    LET p == CHOOSE i \in 1..Len(snapshot_name) : snapshot_name[i] = "@"
    IN SubSeq(snapshot_name, p + 1, Len(snapshot_name))

maybe_ssh(host) ==
    IF host = "localhost" THEN <<>> ELSE <<"ssh", "-C", host>>

(* ---------------------------- the snapshot store ----------------------- *)

\* the machine a pipeline stage runs on, as the shell decides from its prefix
RunsOn(stage) == IF stage.ssh = <<>> THEN "localhost" ELSE stage.ssh[3]

Exists(st, h, fs) == fs \in DOMAIN st[h]

\* the filesystem one level up, <<>> for a pool
Parent(fs) ==
    IF Count(fs, "/") = 0 THEN <<>>
    ELSE LET p == CHOOSE i \in 1..Len(fs) :
                      /\ fs[i] = "/"
                      /\ \A j \in (i + 1)..Len(fs) : fs[j] # "/"
         IN SubSeq(fs, 1, p - 1)

\* fs itself or a filesystem below it
Under(fs, root) == fs = root \/ StartsWith(fs, root \o <<"/">>)

RECURSIVE ListFrom(_, _, _, _)
\* snapshot lines of the filesystems FsOrder[k..] at or under fs on host h
ListFrom(st, h, fs, k) ==
    IF k > Len(FsOrder) THEN <<>>
    ELSE (IF Exists(st, h, FsOrder[k]) /\ Under(FsOrder[k], fs)
          THEN st[h][FsOrder[k]] ELSE <<>>) \o ListFrom(st, h, fs, k + 1)

\* output of "zfs list -o name -r -t snapshot -s creation fs" on host h,
\* split at newlines; the empty result when the command exits non-zero
ZfsListSnapshots(st, h, fs) ==
    IF ~Exists(st, h, fs) THEN <<>>
    ELSE <<<<"NAME">>>> \o ListFrom(st, h, fs, 1) \o << <<>> >>

RECURSIVE NamesFrom(_, _, _, _)
\* names of the filesystems FsOrder[k..] at or under fs on host h
NamesFrom(st, h, fs, k) ==
    IF k > Len(FsOrder) THEN <<>>
    ELSE (IF Exists(st, h, FsOrder[k]) /\ Under(FsOrder[k], fs)
          THEN << FsOrder[k] >> ELSE <<>>) \o NamesFrom(st, h, fs, k + 1)

\* output of "zfs list -r -o name fs" on host h, split at newlines; the
\* empty result when the command exits non-zero
ZfsListFilesystems(st, h, fs) ==
    IF ~Exists(st, h, fs) THEN <<>>
    ELSE <<<<"NAME">>>> \o NamesFrom(st, h, fs, 1) \o << <<>> >>

Remove(s, x) == SelectSeq(s, LAMBDA y : y # x)

\* zfs destroy snapshot, run on host h
ZfsDestroy(st, h, snapshot) ==
    LET fs == FsOf(snapshot) IN
    IF Exists(st, h, fs) /\ snapshot \in Range(st[h][fs])
    THEN [st EXCEPT ![h][fs] = Remove(@, snapshot)]
    ELSE st

\* zfs send snapshot (on hs) | zfs receive -F fs (on hr)
ZfsSendReceiveFull(st, hs, snapshot, hr, fs) ==
    LET from == FsOf(snapshot)
        new  == SnapName(fs, strip_filesystem_name(snapshot)) IN
    IF ~(Exists(st, hs, from) /\ snapshot \in Range(st[hs][from])) THEN st
    ELSE IF Exists(st, hr, fs)
         THEN (IF st[hr][fs] = <<>> THEN [st EXCEPT ![hr][fs] = <<new>>] ELSE st)
         ELSE IF Parent(fs) # <<>> /\ Exists(st, hr, Parent(fs))
              THEN [st EXCEPT ![hr] =
                       [f \in DOMAIN st[hr] \cup {fs} |->
                           IF f = fs THEN <<new>> ELSE st[hr][f]]]
              ELSE st

Index(s, x) == CHOOSE i \in 1..Len(s) : s[i] = x

\* zfs send -I a b (on hs) | zfs receive -F fs (on hr)
ZfsSendReceiveIncremental(st, hs, a, b, hr, fs) ==
    LET from == FsOf(a) IN
    IF ~(/\ Exists(st, hs, from)
         /\ FsOf(b) = from
         /\ a \in Range(st[hs][from])
         /\ b \in Range(st[hs][from])
         /\ Index(st[hs][from], a) < Index(st[hs][from], b)) THEN st
    ELSE IF ~(/\ Exists(st, hr, fs)
              /\ st[hr][fs] # <<>>
              /\ strip_filesystem_name(Last(st[hr][fs])) = strip_filesystem_name(a))
         THEN st
         ELSE LET sent == SubSeq(st[hs][from], Index(st[hs][from], a) + 1,
                                 Index(st[hs][from], b))
              IN [st EXCEPT ![hr][fs] =
                     @ \o [i \in 1..Len(sent) |->
                              SnapName(fs, strip_filesystem_name(sent[i]))]]

\* the effect of a pipeline on the store
Execute(st, cmd) ==
    CASE cmd[1].zfs = "destroy" ->
           ZfsDestroy(st, RunsOn(cmd[1]), cmd[1].args[1])
      [] cmd[1].zfs = "send" ->
           ZfsSendReceiveFull(st, RunsOn(cmd[1]), cmd[1].args[1],
                              RunsOn(cmd[2]), cmd[2].args[1])
      [] cmd[1].zfs = "send -I" ->
           ZfsSendReceiveIncremental(st, RunsOn(cmd[1]), cmd[1].args[1],
                                     cmd[1].args[2], RunsOn(cmd[2]), cmd[2].args[1])
      [] OTHER -> st

\* the pipeline exits non-zero: it leaves the store as it was (each of the
\* three commands changes the store when it succeeds)
Fails(st, cmd) == Execute(st, cmd) = st

(* ---------------------------- the program ------------------------------ *)

\* run_query: the lines of the command's output, [] when it fails
run_query(st, cmd) ==
    IF cmd[1].zfs = "list -t snapshot"
    THEN ZfsListSnapshots(st, RunsOn(cmd[1]), cmd[1].args[1])
    ELSE IF cmd[1].zfs = "list"
    THEN ZfsListFilesystems(st, RunsOn(cmd[1]), cmd[1].args[1])
    ELSE <<>>

snapshots_in_creation_order(st, filesystem, host) ==
    LET cmd == << [ssh |-> maybe_ssh(host), zfs |-> "list -t snapshot",
                   args |-> <<filesystem>>] >>
        lines == run_query(st, cmd)
        snapshot_prefix == filesystem \o <<"@">>
    IN SelectSeq(lines, LAMBDA line : StartsWith(line, snapshot_prefix))

LabelSet(snapshots) == {strip_filesystem_name(s) : s \in Range(snapshots)}

src_set == LabelSet(src_snapshots)

dest_set == LabelSet(dest_snapshots)

None == <<>>

\* mutation: the common snapshot with the lexically greatest label
last_common_lexical(src, dset) ==
    LET hits == SelectSeq(src, LAMBDA s : strip_filesystem_name(s) \in dset)
    IN IF hits = <<>> THEN None
       ELSE CHOOSE s \in Range(hits) :
              \A t \in Range(hits) :
                 LexRank(strip_filesystem_name(t)) <= LexRank(strip_filesystem_name(s))

\* mutation: the oldest source snapshot stands in when nothing is in common
last_common_default_first(src, dset) ==
    LET hits == SelectSeq(Reverse(src),
                          LAMBDA s : strip_filesystem_name(s) \in dset)
    IN IF hits = <<>> THEN src[1] ELSE hits[1]

\* next((s for s in reversed(src) if strip_filesystem_name(s) in dset), None)
last_common(src, dset) ==
    LET hits == SelectSeq(Reverse(src),
                          LAMBDA s : strip_filesystem_name(s) \in dset)
    IN IF hits = <<>> THEN None ELSE hits[1]

last_common_snapshot == last_common(src_snapshots, dest_set)

\* [s for s in dest if not strip_filesystem_name(s) in sset]
extra_in_dest(dest, sset) ==
    SelectSeq(dest, LAMBDA s : strip_filesystem_name(s) \notin sset)

extra_snapshots_in_dest == extra_in_dest(dest_snapshots, src_set)

last_src_snapshot == Last(src_snapshots)

\* mutation: the prefix test is left out
IsAutoSnap_any(snapshot_name) == TRUE

\* snapshot_name.startswith('zfs-auto-snap')
IsAutoSnap(snapshot_name) == StartsWith(snapshot_name, <<"zfs-auto-snap">>)

\* mutation: tested against None, which an empty list is not
no_src_snapshots_is_none(src) == FALSE

\* if not src_snapshots
no_src_snapshots(src) == src = <<>>

\* mutation: the newest source snapshot is sent first
first_src_snapshot_newest(src) == src[Len(src)]

\* src_snapshots[0]
first_src_snapshot(src) == src[1]

\* mutation: the last source snapshot is compared with the bare label
up_to_date_label(last_src, common) == last_src = strip_filesystem_name(common)

\* last_src_snapshot == last_common_snapshot
up_to_date(last_src, common) == last_src = common

DestroyCmd(host, snapshot) ==
    << [ssh |-> maybe_ssh(host), zfs |-> "destroy", args |-> <<snapshot>>] >>

\* the command line of the bootstrap transfer
FullSendCmd(shost, snapshot, dhost, dfs) ==
    << [ssh |-> maybe_ssh(shost), zfs |-> "send", args |-> <<snapshot>>],
       [ssh |-> maybe_ssh(shost), zfs |-> "receive -F", args |-> <<dfs>>] >>

\* mutation: the receiving side is run on the source host, as in FullSendCmd
IncrementalSendCmd_src_receive(shost, from, to, dhost, dfs) ==
    << [ssh |-> maybe_ssh(shost), zfs |-> "send -I", args |-> <<from, to>>],
       [ssh |-> maybe_ssh(shost), zfs |-> "receive -F", args |-> <<dfs>>] >>

\* the command line of the incremental transfer
IncrementalSendCmd(shost, from, to, dhost, dfs) ==
    << [ssh |-> maybe_ssh(shost), zfs |-> "send -I", args |-> <<from, to>>],
       [ssh |-> maybe_ssh(dhost), zfs |-> "receive -F", args |-> <<dfs>>] >>

\* mutation: the command is executed in a dry run too
maybe_run_command_always(cmd, dry) ==
    /\ log' = Append(log, [cmd |-> cmd, dry_run |-> dry, depth |-> depth,
                           failed |-> Fails(store, cmd),
                           fs |-> src_filesystem])
    /\ store' = Execute(store, cmd)

\* mutation: a dry run does not describe the command
maybe_run_command_undescribed(cmd, dry) ==
    /\ log' = IF dry THEN log
              ELSE Append(log, [cmd |-> cmd, dry_run |-> dry, depth |-> depth,
                                failed |-> Fails(store, cmd),
                                fs |-> src_filesystem])
    /\ store' = IF dry THEN store ELSE Execute(store, cmd)

\* maybe_run_command: described in a dry run, executed otherwise
\* (a log entry also tells whether the executed command exited non-zero and
\* for which source filesystem it was issued)
maybe_run_command(cmd, dry) ==
    /\ log' = Append(log, [cmd |-> cmd, dry_run |-> dry, depth |-> depth,
                           failed |-> ~dry /\ Fails(store, cmd),
                           fs |-> src_filesystem])
    /\ store' = IF dry THEN store ELSE Execute(store, cmd)

\* mutation: the checks after the loop do not wait for the loop
ExtrasDone_early == pc = "extras"

\* the delete loop has nothing left to do
ExtrasDone == pc = "extras" /\ idx > Len(extra_snapshots_in_dest)

\* lines 168-174: both enumerations, then the empty-source check
Enumerate ==
    /\ pc = "start"
    /\ dest_snapshots' = snapshots_in_creation_order(store, dest_filesystem, dest_host)
    /\ src_snapshots' = snapshots_in_creation_order(store, src_filesystem, src_host)
    /\ idx' = 1
    /\ IF no_src_snapshots(src_snapshots')
       THEN pc' = "raised" /\ exc' = "ZfsReplicationNoRemoteSnapshots"
       ELSE pc' = "extras" /\ exc' = exc
    /\ UNCHANGED <<args, store, store0, depth, log>>
    /\ UNCHANGED others

\* lines 195-213: one iteration of the loop over extra_snapshots_in_dest
DeleteExtra ==
    /\ pc = "extras"
    /\ idx <= Len(extra_snapshots_in_dest)
    /\ LET snapshot == extra_snapshots_in_dest[idx]
           snapshot_name == strip_filesystem_name(snapshot)
       IN IF IsAutoSnap(snapshot_name) /\ delete_snapshots_not_in_src /\ ~quiet
          THEN maybe_run_command(DestroyCmd(dest_host, snapshot), dry_run)
          ELSE UNCHANGED <<log, store>>
    /\ idx' = idx + 1
    /\ UNCHANGED <<args, store0, pc, exc, depth, src_snapshots, dest_snapshots>>
    /\ UNCHANGED others

\* lines 215-235: no snapshot on the destination
Bootstrap ==
    /\ ExtrasDone
    /\ dest_snapshots = <<>>
    /\ maybe_run_command(FullSendCmd(src_host, first_src_snapshot(src_snapshots),
                                     dest_host, dest_filesystem), dry_run)
    /\ IF dry_run
       THEN pc' = "returned" /\ UNCHANGED <<exc, depth>>
       ELSE IF depth < MaxDepth
            THEN pc' = "start" /\ depth' = depth + 1 /\ exc' = exc
            ELSE pc' = "raised" /\ exc' = "RuntimeError" /\ depth' = depth
    /\ UNCHANGED <<args, store0, src_snapshots, dest_snapshots, idx>>
    /\ UNCHANGED others

\* lines 237-242
NoSnapshotsInCommon ==
    /\ ExtrasDone
    /\ dest_snapshots # <<>>
    /\ last_common_snapshot = None
    /\ pc' = "raised"
    /\ exc' = "ZfsReplicationNoSnapshotsInCommon"
    /\ UNCHANGED <<args, store, store0, depth, src_snapshots, dest_snapshots, idx, log>>
    /\ UNCHANGED others

\* lines 243-247
UpToDate ==
    /\ ExtrasDone
    /\ dest_snapshots # <<>>
    /\ last_common_snapshot # None
    /\ up_to_date(last_src_snapshot, last_common_snapshot)
    /\ pc' = "returned"
    /\ UNCHANGED <<args, store, store0, exc, depth, src_snapshots, dest_snapshots, idx, log>>
    /\ UNCHANGED others

\* lines 248-251
Incremental ==
    /\ ExtrasDone
    /\ dest_snapshots # <<>>
    /\ last_common_snapshot # None
    /\ ~up_to_date(last_src_snapshot, last_common_snapshot)
    /\ maybe_run_command(IncrementalSendCmd(src_host, last_common_snapshot,
                                            last_src_snapshot,
                                            dest_host, dest_filesystem), dry_run)
    /\ pc' = "returned"
    /\ UNCHANGED <<args, store0, exc, depth, src_snapshots, dest_snapshots, idx>>
    /\ UNCHANGED others

(* ---------------------------- initial states --------------------------- *)

\* the sequences without repetition over set, of length at most n
InjSeqs(set, n) ==
    UNION { {s \in [1..k -> set] : \A i, j \in 1..k : s[i] = s[j] => i = j}
            : k \in 0..n }

Absent == [exists |-> FALSE, labels |-> <<>>]

Present(labels) == [exists |-> TRUE, labels |-> labels]

Snaps(fs, labels) == [i \in 1..Len(labels) |-> SnapName(fs, labels[i])]

\* the store in which shost holds the source filesystem S (and, with it, a
\* child filesystem), dhost holds the destination filesystem D, and the
\* source host holds a filesystem X under the destination's name
InitialStore(shost, dhost, S, D, X) ==
    LET content(h, fs) ==
            IF fs = SrcRoot THEN (IF h = shost THEN S ELSE Absent)
            ELSE IF fs = SrcKid
                 THEN (IF h = shost /\ S.exists THEN Present(<< <<"1">> >>) ELSE Absent)
            ELSE IF fs # DestRoot THEN Absent
            ELSE IF h = dhost THEN D
            ELSE IF h = shost THEN X
            ELSE Absent
    IN [h \in Hosts |->
          [fs \in {f \in Range(FsOrder) : content(h, f).exists} |->
              Snaps(fs, content(h, fs).labels)]]

NoPrev == [pc |-> "none", exc |-> "none", log |-> <<>>, dry_run |-> FALSE,
           store0 |-> <<>>]

\* the first run of the program
InitInvocation ==
    /\ run = 1
    /\ prev = NoPrev

\* replicate_snapshots_recursively has just called replicate_snapshots for
\* the root filesystem pair
InitWalk ==
    /\ phase = "root"
    /\ src_root = src_filesystem
    /\ dest_root = dest_filesystem
    /\ src_subfilesystems = <<>>
    /\ dest_subfilesystems = <<>>
    /\ kid = 1
    /\ warned = <<>>
    /\ visited = <<>>
    /\ reported = <<>>
    /\ exit_status = -1

\* no instance of the program is looked at
NoInstances ==
    /\ inst = <<>>
    /\ lock_holder = 0

Init ==
    /\ src_host \in Hosts
    /\ dest_host \in Hosts
    /\ src_filesystem = SrcRoot
    /\ dest_filesystem = DestRoot
    /\ dry_run \in BOOLEAN
    /\ delete_snapshots_not_in_src \in BOOLEAN
    /\ \E vq \in {<<FALSE, FALSE>>, <<TRUE, FALSE>>, <<FALSE, TRUE>>} :
          verbose = vq[1] /\ quiet = vq[2]
    /\ \E S \in {Absent} \cup {Present(l) : l \in InjSeqs(Labels, MaxSrc)},
          D \in {Absent} \cup {Present(l) : l \in InjSeqs(Labels, MaxDest)},
          X \in {Absent, Present(<<>>)} :
          /\ (src_host = dest_host => X = Absent)
          /\ store = InitialStore(src_host, dest_host, S, D, X)
    /\ store0 = store
    /\ pc = "start"
    /\ exc = "none"
    /\ depth = 1
    /\ src_snapshots = <<>>
    /\ dest_snapshots = <<>>
    /\ idx = 1
    /\ log = <<>>
    /\ InitInvocation
    /\ InitWalk
    /\ NoInstances

Next ==
    \/ Enumerate
    \/ DeleteExtra
    \/ Bootstrap
    \/ NoSnapshotsInCommon
    \/ UpToDate
    \/ Incremental

Spec == Init /\ [][Next]_vars

(* ---------------------------- a second run ----------------------------- *)

\* the program is started again, live, with the other arguments as before,
\* after the call of the first run has ended: the second of two runs in
\* immediate succession, or the live run that follows a dry run
RunAgain ==
    /\ run = 1
    /\ pc \in {"returned", "raised"}
    /\ run' = 2
    /\ prev' = [pc |-> pc, exc |-> exc, log |-> log, dry_run |-> dry_run,
                store0 |-> store0]
    /\ dry_run' = FALSE
    /\ store0' = store
    /\ pc' = "start"
    /\ exc' = "none"
    /\ depth' = 1
    /\ src_snapshots' = <<>>
    /\ dest_snapshots' = <<>>
    /\ idx' = 1
    /\ log' = <<>>
    /\ UNCHANGED <<src_host, src_filesystem, dest_host, dest_filesystem,
                   delete_snapshots_not_in_src, verbose, quiet, store,
                   walk, locks>>

NextTwice ==
    \/ Enumerate
    \/ DeleteExtra
    \/ Bootstrap
    \/ NoSnapshotsInCommon
    \/ UpToDate
    \/ Incremental
    \/ RunAgain

SpecTwice == Init /\ [][NextTwice]_vars

(* ---------------------------- the tree walk ---------------------------- *)

\* dependent_zfs_filesystems: the names below filesystem, relative to it
dependent_zfs_filesystems(st, filesystem, host) ==
    LET cmd == << [ssh |-> maybe_ssh(host), zfs |-> "list",
                   args |-> <<filesystem>>] >>
        lines == run_query(st, cmd)
        under == SelectSeq(lines, LAMBDA line :
                               StartsWith(line, filesystem \o <<"/">>))
        subs  == [i \in 1..Len(under) |->
                     SubSeq(under[i], Len(filesystem) + 2, Len(under[i]))]
    IN SelectSeq(subs, LAMBDA sub_filesystem : sub_filesystem # <<>>)

\* "{}/{}".format(filesystem, sub)
ChildPath(filesystem, sub) == filesystem \o <<"/">> \o sub

\* mutation: the root call is wrapped in the try of the child calls
caught_anywhere(ph, e) ==
    e \in {"ZfsReplicationNoRemoteSnapshots", "ZfsReplicationNoSnapshotsInCommon"}

\* the exception meets an except clause of the loop over the children
caught(ph, e) ==
    /\ ph = "kids"
    /\ e \in {"ZfsReplicationNoRemoteSnapshots", "ZfsReplicationNoSnapshotsInCommon"}

\* the call statement is over and the code after it runs
CallOver == pc \in {"returned", "caught"}

\* lines 264-265: after the root call, both sides' children are listed
ListChildren ==
    /\ phase = "root"
    /\ CallOver
    /\ src_subfilesystems' = dependent_zfs_filesystems(store, src_root, src_host)
    /\ dest_subfilesystems' = dependent_zfs_filesystems(store, dest_root, dest_host)
    /\ phase' = "kids"
    /\ kid' = 1
    /\ pc' = "walk"
    /\ UNCHANGED <<args, store, store0, exc, depth, src_snapshots, dest_snapshots,
                   idx, log, twice, src_root, dest_root, warned, visited,
                   reported, exit_status, locks>>

\* lines 266-278: the next source child exists on the destination
VisitChild ==
    /\ phase = "kids"
    /\ pc = "walk"
    /\ kid <= Len(src_subfilesystems)
    /\ src_subfilesystems[kid] \in Range(dest_subfilesystems)
    /\ src_filesystem' = ChildPath(src_root, src_subfilesystems[kid])
    /\ dest_filesystem' = ChildPath(dest_root, src_subfilesystems[kid])
    /\ visited' = Append(visited, src_subfilesystems[kid])
    /\ pc' = "start"
    /\ exc' = "none"
    /\ depth' = 1
    /\ src_snapshots' = <<>>
    /\ dest_snapshots' = <<>>
    /\ idx' = 1
    /\ UNCHANGED <<src_host, dest_host, dry_run, delete_snapshots_not_in_src,
                   verbose, quiet, store, store0, log, twice, phase, src_root,
                   dest_root, src_subfilesystems, dest_subfilesystems, kid,
                   warned, reported, exit_status, locks>>

\* lines 286-293: the next source child does not exist on the destination
WarnChild ==
    /\ phase = "kids"
    /\ pc = "walk"
    /\ kid <= Len(src_subfilesystems)
    /\ src_subfilesystems[kid] \notin Range(dest_subfilesystems)
    /\ warned' = Append(warned, src_subfilesystems[kid])
    /\ kid' = kid + 1
    /\ UNCHANGED <<args, store, store0, pc, exc, depth, src_snapshots,
                   dest_snapshots, idx, log, twice, phase, src_root, dest_root,
                   src_subfilesystems, dest_subfilesystems, visited, reported,
                   exit_status, locks>>

\* the call for a child is over: the loop goes on
ChildOver ==
    /\ phase = "kids"
    /\ CallOver
    /\ kid' = kid + 1
    /\ pc' = "walk"
    /\ exc' = "none"
    /\ UNCHANGED <<args, store, store0, depth, src_snapshots, dest_snapshots,
                   idx, log, twice, phase, src_root, dest_root,
                   src_subfilesystems, dest_subfilesystems, warned, visited,
                   reported, exit_status, locks>>

\* lines 279-285 and 333-338: an exception leaves replicate_snapshots; an
\* except clause of the loop reports it, any other exception ends the walk
\* and is reported by __main__, which then finishes
Raised ==
    /\ phase \in {"root", "kids"}
    /\ pc = "raised"
    /\ IF caught(phase, exc)
       THEN /\ reported' = Append(reported, [fs |-> src_filesystem, exc |-> exc,
                                             by |-> "walk"])
            /\ pc' = "caught"
            /\ UNCHANGED <<phase, exit_status>>
       ELSE /\ reported' = Append(reported, [fs |-> src_filesystem, exc |-> exc,
                                             by |-> "main"])
            /\ pc' = "done"
            /\ phase' = "finished"
            /\ exit_status' = 0
    /\ UNCHANGED <<args, store, store0, exc, depth, src_snapshots, dest_snapshots,
                   idx, log, twice, src_root, dest_root, src_subfilesystems,
                   dest_subfilesystems, kid, warned, visited, locks>>

\* the loop is over, replicate_snapshots_recursively returns and __main__
\* finishes (lines 337-338)
WalkDone ==
    /\ phase = "kids"
    /\ pc = "walk"
    /\ kid > Len(src_subfilesystems)
    /\ pc' = "done"
    /\ phase' = "finished"
    /\ exit_status' = 0
    /\ UNCHANGED <<args, store, store0, exc, depth, src_snapshots, dest_snapshots,
                   idx, log, twice, src_root, dest_root, src_subfilesystems,
                   dest_subfilesystems, kid, warned, visited, reported, locks>>

\* longest snapshot sequence of a filesystem in an initial tree
MaxTree == 2

TreeLabels == { <<"1">>, <<"zfs-auto-snap", "3">> }

TreeChoices == {Absent} \cup {Present(l) : l \in InjSeqs(TreeLabels, MaxTree)}

\* the store in which shost holds the source tree (root S with children SK
\* and SP) and dhost the destination tree (root D with children DK and DP);
\* a child exists only under an existing root
InitialTree(shost, dhost, S, SK, SP, D, DK, DP) ==
    LET content(h, fs) ==
            CASE fs = SrcRoot  -> IF h = shost THEN S ELSE Absent
              [] fs = SrcKid   -> IF h = shost /\ S.exists THEN SK ELSE Absent
              [] fs = SrcPup   -> IF h = shost /\ S.exists THEN SP ELSE Absent
              [] fs = DestRoot -> IF h = dhost THEN D ELSE Absent
              [] fs = DestKid  -> IF h = dhost /\ D.exists THEN DK ELSE Absent
              [] fs = DestPup  -> IF h = dhost /\ D.exists THEN DP ELSE Absent
    IN [h \in Hosts |->
          [fs \in {f \in Range(FsOrder) : content(h, f).exists} |->
              Snaps(fs, content(h, fs).labels)]]

InitTree ==
    /\ \E hh \in {<<"localhost", "localhost">>, <<"sydney", "localhost">>} :
          src_host = hh[1] /\ dest_host = hh[2]
    /\ src_filesystem = SrcRoot
    /\ dest_filesystem = DestRoot
    /\ dry_run \in BOOLEAN
    /\ delete_snapshots_not_in_src \in BOOLEAN
    /\ verbose = FALSE
    /\ quiet \in BOOLEAN
    /\ \E S \in TreeChoices, SK \in TreeChoices, D \in TreeChoices, DK \in TreeChoices,
          SP \in {Absent, Present(<< <<"1">> >>)},
          DP \in {Absent, Present(<<>>)} :
          /\ (~S.exists => (SK = Absent /\ SP = Absent))
          /\ (~D.exists => (DK = Absent /\ DP = Absent))
          /\ store = InitialTree(src_host, dest_host, S, SK, SP, D, DK, DP)
    /\ store0 = store
    /\ pc = "start"
    /\ exc = "none"
    /\ depth = 1
    /\ src_snapshots = <<>>
    /\ dest_snapshots = <<>>
    /\ idx = 1
    /\ log = <<>>
    /\ InitInvocation
    /\ InitWalk
    /\ NoInstances

NextTree ==
    \/ Enumerate
    \/ DeleteExtra
    \/ Bootstrap
    \/ NoSnapshotsInCommon
    \/ UpToDate
    \/ Incremental
    \/ ListChildren
    \/ VisitChild
    \/ WarnChild
    \/ ChildOver
    \/ Raised
    \/ WalkDone

SpecTree == InitTree /\ [][NextTree]_vars

(* ---------------------------- the instances --------------------------- *)

\* instances of the program started on one machine
NumInstances == 2

\* commands (queries, transfers, deletes) an instance issues inside
\* replicate_snapshots_recursively
MaxWork == 2

Instances == 1..NumInstances

\* what the instances leave alone: the state of the one run looked at in
\* the other specifications
program == <<args, store, store0, pc, exc, depth, src_snapshots, dest_snapshots,
             idx, log, twice, walk>>

\* lines 308-329: with quiet off the instance announces itself and tries
\* the lock on the pid file, exiting with status 0 when another instance
\* holds it; with quiet on the block is skipped; then
\* replicate_snapshots_recursively is entered
Enter(i) ==
    /\ inst[i].pc = "main"
    /\ IF inst[i].quiet
       THEN /\ inst' = [inst EXCEPT ![i].pc = "inside"]
            /\ UNCHANGED lock_holder
       ELSE IF lock_holder = 0
            THEN /\ lock_holder' = i
                 /\ inst' = [inst EXCEPT ![i].pc = "inside"]
            ELSE /\ inst' = [inst EXCEPT ![i].pc = "exited", ![i].status = 0]
                 /\ UNCHANGED lock_holder
    /\ UNCHANGED program

\* inside replicate_snapshots_recursively the instance issues a command
Work(i) ==
    /\ inst[i].pc = "inside"
    /\ inst[i].issued < MaxWork
    /\ inst' = [inst EXCEPT ![i].issued = @ + 1]
    /\ UNCHANGED <<lock_holder, program>>

\* lines 333-338: the instance finishes; the end of the process gives up
\* the lock it holds
Finish(i) ==
    /\ inst[i].pc = "inside"
    /\ inst' = [inst EXCEPT ![i].pc = "finished", ![i].status = 0]
    /\ lock_holder' = IF lock_holder = i THEN 0 ELSE lock_holder
    /\ UNCHANGED program

InitLock ==
    /\ src_host = "localhost"
    /\ dest_host = "localhost"
    /\ src_filesystem = SrcRoot
    /\ dest_filesystem = DestRoot
    /\ dry_run = FALSE
    /\ delete_snapshots_not_in_src = FALSE
    /\ verbose = FALSE
    /\ quiet = FALSE
    /\ store = InitialStore("localhost", "localhost", Present(<<>>), Present(<<>>), Absent)
    /\ store0 = store
    /\ pc = "start"
    /\ exc = "none"
    /\ depth = 1
    /\ src_snapshots = <<>>
    /\ dest_snapshots = <<>>
    /\ idx = 1
    /\ log = <<>>
    /\ InitInvocation
    /\ InitWalk
    /\ inst \in [Instances -> {[pc |-> "main", verbose |-> vq[1], quiet |-> vq[2],
                               issued |-> 0, status |-> -1]
                              : vq \in {<<FALSE, FALSE>>, <<TRUE, FALSE>>, <<FALSE, TRUE>>}}]
    /\ lock_holder = 0

NextLock ==
    \/ \E i \in Instances : Enter(i)
    \/ \E i \in Instances : Work(i)
    \/ \E i \in Instances : Finish(i)

SpecLock == InitLock /\ [][NextLock]_vars

TypeOK ==
    /\ pc \in {"start", "extras", "returned", "raised", "caught", "walk", "done"}
    /\ exc \in {"none", "ZfsReplicationNoRemoteSnapshots",
                "ZfsReplicationNoSnapshotsInCommon", "RuntimeError"}
    /\ depth \in 1..MaxDepth

(* ---------------------------- properties ------------------------------- *)

\* the call has ended, by return or by exception
Ended == pc \in {"returned", "raised"}

\* the source and destination sequences of the store the run started from
S0 == IF Exists(store0, src_host, src_filesystem)
      THEN store0[src_host][src_filesystem] ELSE <<>>

D0 == IF Exists(store0, dest_host, dest_filesystem)
      THEN store0[dest_host][dest_filesystem] ELSE <<>>

IsDestroy(e) == e.cmd[1].zfs = "destroy"

IsFull(e) == e.cmd[1].zfs = "send"

IsIncremental(e) == e.cmd[1].zfs = "send -I"

IsTransfer(e) == IsFull(e) \/ IsIncremental(e)

\* the commands of the log issued by the call at nesting d
LogAt(d) == SelectSeq(log, LAMBDA e : e.depth = d)

Transfers == SelectSeq(log, IsTransfer)

\* positions in src of the snapshots whose label occurs in dest
CommonPositions(src, dest) ==
    {i \in 1..Len(src) : strip_filesystem_name(src[i]) \in LabelSet(dest)}

\* C1: when source and destination share a label, last_common is the source
\* snapshot at the greatest creation-order position among the source
\* snapshots whose label occurs on the destination, whatever the labels'
\* lexical order.
Thm_C1_LastCommonIsNewestShared ==
    (pc = "extras" /\ CommonPositions(S0, dest_snapshots) # {}) =>
        /\ last_common_snapshot \in Range(S0)
        /\ \A i \in CommonPositions(S0, dest_snapshots) :
              i <= Index(S0, last_common_snapshot)
        /\ Index(S0, last_common_snapshot) \in CommonPositions(S0, dest_snapshots)

\* two shared labels whose creation order is the reverse of their lexical order
Wit_C1_CreationOrderAgainstLexical ==
    /\ pc = "extras"
    /\ Cardinality(CommonPositions(S0, dest_snapshots)) >= 2
    /\ \E i \in CommonPositions(S0, dest_snapshots) :
          /\ i < Index(S0, last_common_snapshot)
          /\ LexRank(strip_filesystem_name(S0[i]))
               > LexRank(strip_filesystem_name(last_common_snapshot))

\* C2: every delete command issued runs on the destination host against a
\* snapshot of the destination filesystem whose label is absent from the
\* source labels and starts with zfs-auto-snap; the source filesystem's
\* snapshots are never changed.
Thm_C2_DeletesOnlyAutoDestOnly ==
    /\ \A k \in 1..Len(log) :
          IsDestroy(log[k]) =>
             LET snapshot == log[k].cmd[1].args[1] IN
             /\ RunsOn(log[k].cmd[1]) = dest_host
             /\ snapshot \in Range(D0)
             /\ FsOf(snapshot) = dest_filesystem
             /\ strip_filesystem_name(snapshot) \notin LabelSet(S0)
             /\ StartsWith(strip_filesystem_name(snapshot), <<"zfs-auto-snap">>)
    /\ Exists(store0, src_host, src_filesystem) =>
          /\ Exists(store, src_host, src_filesystem)
          /\ store[src_host][src_filesystem] = S0
    /\ \A s \in Range(D0) :
          (~StartsWith(strip_filesystem_name(s), <<"zfs-auto-snap">>)
              \/ strip_filesystem_name(s) \in LabelSet(S0))
          => s \in Range(store[dest_host][dest_filesystem])

\* a live delete has been executed while a manual destination-only snapshot
\* was passed over, with the delete policy enabled
Wit_C2_DeleteSparesManual ==
    /\ delete_snapshots_not_in_src
    /\ Ended
    /\ \E k \in 1..Len(log) : IsDestroy(log[k]) /\ ~log[k].dry_run
    /\ \E s \in Range(D0) :
          /\ ~StartsWith(strip_filesystem_name(s), <<"zfs-auto-snap">>)
          /\ strip_filesystem_name(s) \notin LabelSet(S0)
          /\ s \in Range(store[dest_host][dest_filesystem])
    /\ store[dest_host][dest_filesystem] # D0

\* C3: with the delete policy enabled and a non-empty source, once the loop
\* over the destination-only snapshots is over, a delete command has been
\* emitted for every one of them with an automatic label, whatever verbose
\* and quiet are.
Cex_C3_DeleteEmittedForEveryAuto ==
    (delete_snapshots_not_in_src /\ src_snapshots # <<>> /\ (ExtrasDone \/ Ended)) =>
        \A s \in Range(dest_snapshots) :
           (/\ strip_filesystem_name(s) \notin src_set
            /\ StartsWith(strip_filesystem_name(s), <<"zfs-auto-snap">>))
           => \E k \in 1..Len(log) :
                 /\ IsDestroy(log[k])
                 /\ log[k].cmd[1].args[1] = s
                 /\ log[k].dry_run = dry_run

\* C4: with an empty source (no snapshot, or a failed query) the call ends
\* in ZfsReplicationNoRemoteSnapshots right after the enumeration, no
\* command has been issued and the store is as it was.
Thm_C4_EmptySourceFailsFirst ==
    (S0 = <<>> /\ pc # "start") =>
        /\ pc = "raised"
        /\ exc = "ZfsReplicationNoRemoteSnapshots"
        /\ log = <<>>
        /\ store = store0

\* the failure is reached after a failed source query (the source filesystem
\* does not exist), over a destination with a deletable snapshot, the delete
\* policy enabled
Wit_C4_EmptySourceWithDeletableDest ==
    /\ ~Exists(store0, src_host, src_filesystem)
    /\ S0 = <<>>
    /\ exc = "ZfsReplicationNoRemoteSnapshots"
    /\ delete_snapshots_not_in_src
    /\ ~quiet
    /\ ~dry_run
    /\ \E s \in Range(D0) : StartsWith(strip_filesystem_name(s), <<"zfs-auto-snap">>)

AutoExtras(src, dest) ==
    SelectSeq(dest, LAMBDA s :
        /\ strip_filesystem_name(s) \notin LabelSet(src)
        /\ StartsWith(strip_filesystem_name(s), <<"zfs-auto-snap">>))

\* S and D share no label, D holds a destination-only automatic snapshot
\* and the delete policy is enabled
NoCommonWithAutoExtra ==
    /\ S0 # <<>>
    /\ D0 # <<>>
    /\ LabelSet(S0) \cap LabelSet(D0) = {}
    /\ AutoExtras(S0, D0) # <<>>
    /\ delete_snapshots_not_in_src

\* C6 as stated: in that case the call fails with
\* ZfsReplicationNoSnapshotsInCommon and no delete command is emitted.
Cex_C6_NoDeleteBeforeNoCommon ==
    NoCommonWithAutoExtra =>
        /\ \A k \in 1..Len(log) : ~IsDestroy(log[k])
        /\ Ended => exc = "ZfsReplicationNoSnapshotsInCommon"

\* C6 amended: in that case the call fails with
\* ZfsReplicationNoSnapshotsInCommon only after the delete loop has run to
\* its end: by then the commands emitted are the loop's deletes, one for each
\* destination-only automatic snapshot in creation order when quiet is off
\* and none when quiet is on, and no transfer.
Thm_C6_DeletesPrecedeNoCommon ==
    (NoCommonWithAutoExtra /\ Ended) =>
        /\ pc = "raised"
        /\ exc = "ZfsReplicationNoSnapshotsInCommon"
        /\ LET expected == IF quiet THEN <<>> ELSE AutoExtras(S0, D0) IN
           /\ Len(log) = Len(expected)
           /\ \A k \in 1..Len(log) :
                 /\ IsDestroy(log[k])
                 /\ log[k].cmd[1].args[1] = expected[k]
                 /\ log[k].dry_run = dry_run

\* the scenario S = [@2], D = [@1, @zfs-auto-snap9], run live with quiet
\* off: the call has failed and @zfs-auto-snap9 is gone from the destination
Wit_C6_ScenarioDeletesThenFails ==
    /\ S0 = << SnapName(src_filesystem, <<"2">>) >>
    /\ D0 = << SnapName(dest_filesystem, <<"1">>),
               SnapName(dest_filesystem, <<"zfs-auto-snap", "9">>) >>
    /\ delete_snapshots_not_in_src
    /\ ~dry_run
    /\ ~quiet
    /\ exc = "ZfsReplicationNoSnapshotsInCommon"
    /\ store[dest_host][dest_filesystem] = << SnapName(dest_filesystem, <<"1">>) >>

\* C7: a call that finds the destination empty and the source non-empty
\* issues exactly one command, the full send of the oldest source snapshot
\* received into the destination filesystem, described in a dry run and
\* executed in a live run; it issues no incremental transfer and no delete.
Thm_C7_EmptyDestFullTransferOfOldest ==
    \A d \in 1..depth :
       LET bootstrapped ==
               \/ d < depth
               \/ (Ended /\ dest_snapshots = <<>> /\ src_snapshots # <<>>)
           pending == d = depth /\ pc = "extras" /\ dest_snapshots = <<>>
       IN /\ pending => LogAt(d) = <<>>
          /\ bootstrapped =>
                /\ Len(LogAt(d)) = 1
                /\ IsFull(LogAt(d)[1])
                /\ LogAt(d)[1].cmd[1].args = << S0[1] >>
                /\ LogAt(d)[1].cmd[2].zfs = "receive -F"
                /\ LogAt(d)[1].cmd[2].args = << dest_filesystem >>
                /\ LogAt(d)[1].dry_run = dry_run

\* a live bootstrap from a source of three snapshots has been followed by
\* the recursive call
Wit_C7_BootstrapOfLongSource ==
    /\ Len(S0) = 3
    /\ D0 = <<>>
    /\ ~dry_run
    /\ depth = 2
    /\ Ended
    /\ Len(LogAt(1)) = 1

\* C8: once a live bootstrap transfer has run against an existing, empty
\* destination filesystem, the destination filesystem on the destination
\* host holds the oldest source snapshot, and a source host that is not the
\* destination host has its store unchanged.
Cex_C8_BootstrapDelivered ==
    (/\ log # <<>>
     /\ IsFull(log[1])
     /\ ~log[1].dry_run
     /\ Exists(store0, dest_host, dest_filesystem)) =>
        /\ SnapName(dest_filesystem, strip_filesystem_name(S0[1]))
              \in Range(store[dest_host][dest_filesystem])
        /\ src_host # dest_host => store[src_host] = store0[src_host]

\* C9: a run over an existing empty destination and a source of at least two
\* snapshots ends with exactly these transfers: in a live run the full
\* transfer of S[0] followed by the incremental transfer from S[0] to the
\* newest source snapshot, in a dry run the full transfer alone.
Cex_C9_FullThenIncremental ==
    (/\ Ended
     /\ Exists(store0, dest_host, dest_filesystem)
     /\ D0 = <<>>
     /\ Len(S0) >= 2) =>
        /\ Len(Transfers) = IF dry_run THEN 1 ELSE 2
        /\ IsFull(Transfers[1])
        /\ Transfers[1].cmd[1].args = << S0[1] >>
        /\ ~dry_run =>
              /\ IsIncremental(Transfers[2])
              /\ Transfers[2].cmd[1].args = << S0[1], Last(S0) >>

\* C10: a call that finds the label of the newest source snapshot on the
\* destination returns normally and issues no transfer.
Thm_C10_UpToDateIsNoOp ==
    (/\ pc # "start"
     /\ src_snapshots # <<>>
     /\ strip_filesystem_name(Last(src_snapshots)) \in dest_set) =>
        /\ SelectSeq(LogAt(depth), IsTransfer) = <<>>
        /\ Ended => (pc = "returned" /\ exc = "none")
        /\ ~Ended => ENABLED Next

\* the up-to-date return is reached with older source snapshots missing on
\* the destination, and after a live delete
Wit_C10_UpToDateReturned ==
    /\ pc = "returned"
    /\ depth = 1
    /\ Len(src_snapshots) >= 2
    /\ strip_filesystem_name(Last(src_snapshots)) \in dest_set
    /\ strip_filesystem_name(src_snapshots[1]) \notin dest_set
    /\ \E k \in 1..Len(log) : IsDestroy(log[k]) /\ ~log[k].dry_run

\* C11: a call that finds the destination non-empty, a shared label, and
\* the newest shared source snapshot older than the newest source snapshot
\* issues exactly one transfer: zfs send -I from the newest shared source
\* snapshot to the newest source snapshot, run on the source host and
\* received into the destination filesystem on the destination host; the
\* call then returns normally.
Thm_C11_IncrementalFromLastCommon ==
    LET common == CommonPositions(src_snapshots, dest_snapshots)
        newest == CHOOSE i \in common : \A j \in common : j <= i
        sent   == SelectSeq(LogAt(depth), IsTransfer)
    IN (/\ pc # "start"
        /\ dest_snapshots # <<>>
        /\ common # {}
        /\ newest # Len(src_snapshots)) =>
           /\ ~Ended => (sent = <<>> /\ ENABLED Next)
           /\ Ended =>
                 /\ pc = "returned"
                 /\ exc = "none"
                 /\ Len(sent) = 1
                 /\ IsIncremental(sent[1])
                 /\ sent[1].cmd[1].args = << src_snapshots[newest], Last(src_snapshots) >>
                 /\ RunsOn(sent[1].cmd[1]) = src_host
                 /\ sent[1].cmd[2].zfs = "receive -F"
                 /\ sent[1].cmd[2].args = << dest_filesystem >>
                 /\ RunsOn(sent[1].cmd[2]) = dest_host
                 /\ sent[1].dry_run = dry_run

\* the scenario S = [@1, @2, @3], D = [@1, @2] between two hosts, run live:
\* the one command was the incremental transfer and the destination now
\* holds @3 as well
Wit_C11_ScenarioIncremental ==
    /\ src_host # dest_host
    /\ S0 = Snaps(src_filesystem, << <<"1">>, <<"2">>, <<"zfs-auto-snap", "3">> >>)
    /\ D0 = Snaps(dest_filesystem, << <<"1">>, <<"2">> >>)
    /\ ~dry_run
    /\ pc = "returned"
    /\ Len(log) = 1
    /\ IsIncremental(log[1])
    /\ store[dest_host][dest_filesystem]
          = Snaps(dest_filesystem, << <<"1">>, <<"2">>, <<"zfs-auto-snap", "3">> >>)

\* C12: when a live call has returned normally and the program is run again
\* at once, the second call finds the newest source label on the
\* destination, issues no transfer and returns normally.
Cex_C12_SecondRunIsNoOp ==
    (run = 2 /\ ~prev.dry_run /\ prev.pc = "returned" /\ pc \in {"returned", "raised"}) =>
        /\ pc = "returned"
        /\ SelectSeq(log, IsTransfer) = <<>>
        /\ strip_filesystem_name(Last(src_snapshots)) \in dest_set

\* the commands of a log, in the order they were issued
Cmds(lg) == [k \in 1..Len(lg) |-> lg[k].cmd]

\* C14 as stated: a dry run and the live run started from the same store
\* issue the same commands in the same order and end the same way.
Cex_C14_DryAndLiveDecideAlike ==
    (run = 2 /\ prev.dry_run /\ pc \in {"returned", "raised"}) =>
        /\ Cmds(prev.log) = Cmds(log)
        /\ prev.pc = pc
        /\ prev.exc = exc

\* C14 amended: the live run that follows a dry run starts from the store
\* the dry run started from; the two runs issue the same commands and end
\* the same way whenever the destination has a snapshot or the source has
\* none; when the destination has no snapshot and the source has some, the
\* dry run describes the full transfer of the oldest source snapshot alone
\* and returns, and that transfer is the first command of the live run.
Thm_C14_DryAndLiveAlikeButBootstrap ==
    (run = 2 /\ prev.dry_run /\ pc \in {"returned", "raised"}) =>
        /\ store0 = prev.store0
        /\ \A k \in 1..Len(prev.log) : prev.log[k].dry_run
        /\ \A k \in 1..Len(log) : ~log[k].dry_run
        /\ IF D0 = <<>> /\ S0 # <<>>
           THEN /\ prev.pc = "returned"
                /\ Len(prev.log) = 1
                /\ IsFull(prev.log[1])
                /\ prev.log[1].cmd[1].args = << S0[1] >>
                /\ log # <<>>
                /\ log[1].cmd = prev.log[1].cmd
           ELSE /\ Cmds(prev.log) = Cmds(log)
                /\ prev.pc = pc
                /\ prev.exc = exc

\* a dry run and the live run after it have both issued a delete and then
\* the incremental transfer
Wit_C14_SameDeleteAndTransfer ==
    /\ run = 2
    /\ prev.dry_run
    /\ pc = "returned"
    /\ Len(log) = 2
    /\ IsDestroy(log[1])
    /\ IsIncremental(log[2])
    /\ Cmds(prev.log) = Cmds(log)
    /\ store # store0

\* the filesystem pair's call ended by an exception that __main__ reported
MainReported(fs) ==
    \E k \in 1..Len(reported) : reported[k].fs = fs /\ reported[k].by = "main"

\* how many times the child sub was handed to replicate_snapshots
Visits(sub) == Cardinality({k \in 1..Len(visited) : visited[k] = sub})

\* C13: in a dry run of the tree walk the store is at every moment the
\* store the run started from: no snapshot of any source or destination
\* filesystem is added or removed, and every command is only described.
Thm_C13_DryRunMutatesNothing ==
    dry_run =>
        /\ store = store0
        /\ \A k \in 1..Len(log) : log[k].dry_run /\ ~log[k].failed

\* a dry walk has finished after describing a delete for the root and a
\* transfer for a child
Wit_C13_DryWalkDescribedCommands ==
    /\ dry_run
    /\ phase = "finished"
    /\ \E k \in 1..Len(log) : IsDestroy(log[k]) /\ log[k].fs = src_root
    /\ \E k \in 1..Len(log) : IsTransfer(log[k]) /\ log[k].fs # src_root
    /\ visited # <<>>

\* C15: when the walk over the children has been entered and the program
\* has finished, every source child that also exists on the destination
\* has been reconciled exactly once.
Cex_C15_EveryCommonChildReconciledOnce ==
    (phase = "finished" /\ ~MainReported(src_root)) =>
        \A k \in 1..Len(src_subfilesystems) :
           src_subfilesystems[k] \in Range(dest_subfilesystems)
              => Visits(src_subfilesystems[k]) = 1

\* C16: every transfer command is issued for a destination filesystem that
\* exists on the destination host, and a source child that is absent on
\* the destination is warned about and gets no command.
Cex_C16_NoTransferIntoMissingFilesystem ==
    /\ \A k \in 1..Len(log) :
          IsTransfer(log[k]) => Exists(store0, dest_host, log[k].cmd[2].args[1])
    /\ \A k \in 1..Len(warned) :
          /\ ~Exists(store0, dest_host, ChildPath(dest_root, warned[k]))
          /\ Visits(warned[k]) = 0
          /\ \A j \in 1..Len(log) : log[j].fs # ChildPath(src_root, warned[k])

\* C17: after a live command has exited non-zero, the call that issued it
\* has failed with ExecutionFailure and issues no further command for its
\* filesystem, while the walk still reaches every sibling.
Cex_C17_FailedCommandRaises ==
    /\ \A k \in 1..Len(log) :
          log[k].failed =>
             /\ \A j \in (k + 1)..Len(log) : log[j].fs # log[k].fs
             /\ (k = Len(log) /\ src_filesystem = log[k].fs)
                   => (pc = "raised" /\ exc = "ExecutionFailure")
    /\ (phase = "finished" /\ ~MainReported(src_root)) =>
          \A k \in 1..Len(src_subfilesystems) :
             src_subfilesystems[k] \in Range(dest_subfilesystems)
                => Visits(src_subfilesystems[k]) = 1

\* C19: a live call bootstraps at most once: the log never holds two full
\* transfers for one filesystem, and the call never runs into the
\* interpreter's recursion limit.
Cex_C19_BootstrapAtMostOnce ==
    /\ Len(SelectSeq(log, IsFull)) <= 1
    /\ exc # "RuntimeError"

\* the root call has failed with an exception of the program's own
RootFailed ==
    \/ /\ phase = "root"
       /\ pc = "raised"
       /\ exc \in {"ZfsReplicationNoRemoteSnapshots", "ZfsReplicationNoSnapshotsInCommon"}
    \/ /\ reported # <<>>
       /\ reported[1].fs = src_root
       /\ reported[1].exc \in {"ZfsReplicationNoRemoteSnapshots",
                               "ZfsReplicationNoSnapshotsInCommon"}

\* C20: once the root call has raised ZfsReplicationNoRemoteSnapshots or
\* ZfsReplicationNoSnapshotsInCommon the walk over the children is never
\* entered: no child is listed, warned about or reconciled and no command
\* is issued for a child; the program reports the exception and finishes
\* with exit status 0.
Thm_C20_RootFailureEndsWalk ==
    RootFailed =>
        /\ phase \in {"root", "finished"}
        /\ src_subfilesystems = <<>>
        /\ dest_subfilesystems = <<>>
        /\ visited = <<>>
        /\ warned = <<>>
        /\ \A k \in 1..Len(log) : log[k].fs = src_root
        /\ phase = "root" => ENABLED Raised
        /\ phase = "finished" =>
              /\ exit_status = 0
              /\ Len(reported) = 1
              /\ reported[1].by = "main"
              /\ ~ENABLED NextTree

\* the program has finished after the root call failed for want of a common
\* snapshot, having executed a delete on the root, although a child exists
\* on both sides and has source snapshots to replicate
Wit_C20_RootFailedOverReplicableChild ==
    /\ phase = "finished"
    /\ exit_status = 0
    /\ reported # <<>>
    /\ reported[1].exc = "ZfsReplicationNoSnapshotsInCommon"
    /\ reported[1].fs = src_root
    /\ ~dry_run
    /\ log # <<>>
    /\ Exists(store, src_host, SrcKid)
    /\ store[src_host][SrcKid] # <<>>
    /\ Exists(store, dest_host, DestKid)

\* C18: at most one instance is inside replicate_snapshots_recursively at
\* a time, whatever the instances' flags, and an instance that exited for
\* want of the lock has issued no command.
Cex_C18_OneInstanceInside ==
    /\ \A i, j \in Instances :
          (inst[i].pc = "inside" /\ inst[j].pc = "inside") => i = j
    /\ \A i \in Instances : inst[i].pc = "exited" => inst[i].issued = 0

====
